---- MODULE Spec2Model ----
(***************************************************************************)
(* letsbench: head-to-head benchmarking of two functions taken from two    *)
(* NPM packages (src/src/index.ts).                                        *)
(*                                                                         *)
(* index.ts holds two revisions of the tool: the interactive revision      *)
(* (lines 1-533) and the direct 'vs' revision (lines 534-1137).  The       *)
(* variable `revision` says which one runs.                                *)
(*                                                                         *)
(* Four state machines are modelled:                                       *)
(*   Spec           run()/runCLI() from "Run benchmarks" on:               *)
(*                  benchmarkFunction twice, then displayResults           *)
(*   SpecExplore    getFunctions (the export explorer) on two modules      *)
(*   SpecResolve    one getValue call, on any module and dotted path       *)
(*   SpecArguments  one parseArguments call, on any argument text          *)
(*                                                                         *)
(* JavaScript strings that the code inspects character by character        *)
(* (property names, dotted paths) are sequences of one-character strings.  *)
(***************************************************************************)
EXTENDS Integers, Sequences, FiniteSets, TLC

VARIABLES
    revision,      \* 1: interactive revision, 2: direct 'vs' revision
    runs,          \* SimpleBenchmarker.runs
    heap,          \* heap[m]: the object graph of package m (id -> object)
    root,          \* root[m]: the value installPackage returned for package m
    functionPath,  \* functionPath[m]: the path chosen for package m
    pc,            \* position in run()/runCLI()
    cur,           \* the package whose benchmarkFunction call is in progress
    i,             \* benchmarkFunction: loop counter
    broke,         \* benchmarkFunction: the loop was left by `break`
    times,         \* benchmarkFunction: times[]
    memories,      \* benchmarkFunction: memories[]
    result,        \* benchmarkFunction: result
    error,         \* benchmarkFunction: error
    results,       \* results[m]: what benchmarkFunction returned for package m
    caught,        \* the error run()'s catch block printed, or NoError
    report,        \* what displayResults printed after the per-result lines
    ncalls,        \* history: ncalls[m] = number of invocations of m's callable
    failedAt,      \* history: failedAt[m] = index of m's first failing invocation, 0 if none
    lastOutcome,   \* history: the outcome of the latest invocation of this call
    func,          \* benchmarkFunction: func, the value found at the path
    input,         \* parseArguments: its parameter, the raw argument text
    parsedArgs,    \* what parseArguments returned
    argv,          \* the command line, as minimist parsed it
    pending,       \* the invocations <<m, k>> whose thenable has not settled yet
    gf             \* the getFunctions call in progress (SpecExplore)

benchVars == <<revision, runs, heap, root, functionPath, pc, cur, i, broke,
               times, memories, result, error, results, caught, report,
               ncalls, failedAt, lastOutcome, func, input, parsedArgs, argv, pending>>

vars == <<benchVars, gf>>

Packages == {1, 2}

----------------------------------------------------------------------------
(* Bounds *)

MaxRuns == 3

\* what one run can measure: end - start (ms) and memAfter - memBefore (bytes)
Measurements == {[time |-> 0, memory |-> -4], [time |-> 3, memory |-> 8]}

----------------------------------------------------------------------------
(* JavaScript values *)

Undefined == [t |-> "undefined", s |-> "", kv |-> <<>>]
Null      == [t |-> "null", s |-> "", kv |-> <<>>]
Str(s)    == [t |-> "string", s |-> s, kv |-> <<>>]
\* an object literal: its own enumerable properties in insertion order
Obj(kv)   == [t |-> "object", s |-> "", kv |-> kv]

Num(s)    == [t |-> "number", s |-> s, kv |-> <<>>]
\* a reference to the object or function `id` of a package's heap
Ref(id)   == [t |-> "ref", s |-> id, kv |-> <<>>]

\* a number that is an integer, and the number NaN
NumberOf(n) == [nan |-> FALSE, n |-> n]
NotANumber  == [nan |-> TRUE, n |-> 0]

\* no command line has been read
NoArgv == [runs |-> Undefined, r |-> Undefined, mode |-> "none"]

NoError == "<none>"

\* ToBoolean for the values the code tests: undefined, null and '' are falsy
Truthy(v) == ~(v.t \in {"undefined", "null"} \/ (v.t = "string" /\ v.s = ""))

\* typeof v, for a value v of a package whose heap is h
Typeof(h, v) ==
    CASE v.t = "ref"  -> h[v.s].type
      [] v.t = "null" -> "object"
      [] OTHER        -> v.t

RECURSIVE JoinMembers(_)
JoinMembers(kv) ==
    IF kv = <<>> THEN ""
    ELSE "\"" \o kv[1][1] \o "\":" \o ToString(kv[1][2])
         \o (IF Len(kv) > 1 THEN "," ELSE "") \o JoinMembers(Tail(kv))

\* JSON.stringify(v): a string, or undefined for undefined
JSONstringify(v) ==
    CASE v.t = "undefined" -> Undefined
      [] v.t = "null"      -> Str("null")
      [] v.t = "string"    -> Str("\"" \o v.s \o "\"")
      [] v.t = "object"    -> Str("{" \o JoinMembers(v.kv) \o "}")

----------------------------------------------------------------------------
(* Strings and property access *)

Dot == "."
S_default == <<"d", "e", "f", "a", "u", "l", "t">>
S_main    == <<"m", "a", "i", "n">>

\* the property names of the modules below, each the sequence of its characters
K ==
    [self |-> <<"s", "e", "l", "f">>,
     f |-> <<"f">>,
     g |-> <<"g">>,
     h |-> <<"h">>,
     a |-> <<"a">>,
     b |-> <<"b">>,
     c |-> <<"c">>,
     d |-> <<"d">>,
     e |-> <<"e">>,
     x |-> <<"x">>,
     y |-> <<"y">>,
     top |-> <<"t", "o", "p">>,
     util |-> <<"u", "t", "i", "l">>,
     ok |-> <<"o", "k">>,
     deep |-> <<"d", "e", "e", "p">>,
     helper |-> <<"h", "e", "l", "p", "e", "r">>,
     Klass |-> <<"K", "l", "a", "s", "s">>,
     create |-> <<"c", "r", "e", "a", "t", "e">>,
     method |-> <<"m", "e", "t", "h", "o", "d">>,
     back |-> <<"b", "a", "c", "k">>,
     bad |-> <<"b", "a", "d">>,
     up |-> <<"_", "p">>,
     uq |-> <<"_", "q">>,
     uur |-> <<"_", "_", "r">>,
     f0 |-> <<"f", "0">>,
     f3 |-> <<"f", "3">>,
     f4 |-> <<"f", "4">>,
     f5 |-> <<"f", "5">>,
     m1 |-> <<"m", "1">>,
     m2 |-> <<"m", "2">>,
     m3 |-> <<"m", "3">>,
     m4 |-> <<"m", "4">>,
     m5 |-> <<"m", "5">>,
     m6 |-> <<"m", "6">>,
     constructor |-> <<"c", "o", "n", "s", "t", "r", "u", "c", "t", "o", "r">>,
     prototype |-> <<"p", "r", "o", "t", "o", "t", "y", "p", "e">>,
     caller |-> <<"c", "a", "l", "l", "e", "r">>,
     arguments |-> <<"a", "r", "g", "u", "m", "e", "n", "t", "s">>,
     name |-> <<"n", "a", "m", "e">>,
     length |-> <<"l", "e", "n", "g", "t", "h">>,
     run |-> <<"r", "u", "n">>,
     data |-> <<"d", "a", "t", "a">>]

\* path.split('.')
RECURSIVE SplitFrom(_, _)
SplitFrom(str, acc) ==
    IF str = <<>> THEN <<acc>>
    ELSE IF Head(str) = Dot THEN <<acc>> \o SplitFrom(Tail(str), <<>>)
    ELSE SplitFrom(Tail(str), Append(acc, Head(str)))

Split(str) == SplitFrom(str, <<>>)

\* the own property `key` of object o, as a sequence of zero or one property
OwnProp(o, key) == SelectSeq(o.props, LAMBDA p: p.key = key)

\* v[key]: [threw |-> a getter threw or v is null/undefined, val |-> the value]
Get(h, v, key) ==
    IF v.t \in {"null", "undefined"} THEN [threw |-> TRUE, val |-> Undefined]
    ELSE IF v.t # "ref" THEN [threw |-> FALSE, val |-> Undefined]
    ELSE LET ps == OwnProp(h[v.s], key)
         IN IF ps = <<>> THEN [threw |-> FALSE, val |-> Undefined]
            ELSE IF ps[1].throws THEN [threw |-> TRUE, val |-> Undefined]
            ELSE [threw |-> FALSE, val |-> ps[1].val]

\* v?.[key]
OptGet(h, v, key) ==
    IF v.t \in {"null", "undefined"} THEN [threw |-> FALSE, val |-> Undefined]
    ELSE Get(h, v, key)

RECURSIVE Walk(_, _, _)
Walk(h, current, keys) ==
    IF keys = <<>> THEN [threw |-> FALSE, val |-> current]
    ELSE LET g == OptGet(h, current, Head(keys))
         IN IF g.threw THEN g ELSE Walk(h, g.val, Tail(keys))

getValue(h, obj, path) ==
    IF path = S_default
    THEN LET d == Get(h, obj, S_default)
         IN IF d.threw THEN d
            ELSE [threw |-> FALSE, val |-> IF Truthy(d.val) THEN d.val ELSE obj]
    ELSE IF path = S_main THEN [threw |-> FALSE, val |-> obj]
    ELSE Walk(h, obj, Split(path))

----------------------------------------------------------------------------
(* getFunctions (interactive revision): the export explorer *)

\* (mutant) one more level is explored
MaxDepthDefault_OneMore == 3 + 1

\* maxDepth = 3
MaxDepthDefault == 3

S_moduleExports == <<"m", "o", "d", "u", "l", "e", ".", "e", "x", "p", "o", "r", "t", "s">>

ExcludedNames == {K.constructor, K.prototype, K.caller, K.arguments, K.name, K.length}

\* key.startsWith(prefix)
StartsWith(key, prefix) ==
    Len(key) >= Len(prefix) /\ SubSeq(key, 1, Len(prefix)) = prefix

\* (mutant) only the double underscore marks a private name
KeyAllowed_DoubleOnly(key) ==
    /\ ~StartsWith(key, <<"_", "_">>)
    /\ key \notin ExcludedNames

\* the filter on the keys of a node
KeyAllowed(key) ==
    /\ ~StartsWith(key, <<"_">>)
    /\ ~StartsWith(key, <<"_", "_">>)
    /\ key \notin ExcludedNames

\* Object.keys(o): the enumerable own property names, in order
ObjectKeys(o) ==
    LET en == SelectSeq(o.props, LAMBDA p : p.enum)
    IN  [k \in DOMAIN en |-> en[k].key]

\* typeof obj[key] === 'function' for an own property p that does not throw
IsFunctionProp(h, p) == ~p.throws /\ Typeof(h, p.val) = "function"

\* the non-enumerable own properties, which the key list reads with obj[key]
NonEnumProps(o) == SelectSeq(o.props, LAMBDA p : ~p.enum)

\* building the key list throws: a non-enumerable getter throws under typeof obj[key]
KeysThrow(o) == \E k \in DOMAIN NonEnumProps(o) : NonEnumProps(o)[k].throws

\* the key list of a node: Object.keys, then the non-enumerable function-valued
\* own properties, filtered by name
Keys(h, o) ==
    LET ne == SelectSeq(NonEnumProps(o), LAMBDA p : IsFunctionProp(h, p))
        all == ObjectKeys(o) \o [k \in DOMAIN ne |-> ne[k].key]
    IN  SelectSeq(all, KeyAllowed)

\* path ? `${path}.${key}` : key
NewPath(path, key) == IF path # <<>> THEN path \o <<Dot>> \o key ELSE key

\* path || 'main'
PathOrMain(path) == IF path # <<>> THEN path ELSE S_main

\* [...new Set(functions)]: the first occurrence of each path, in order
RECURSIVE DedupeInto(_, _)
DedupeInto(acc, seq) ==
    IF seq = <<>> THEN acc
    ELSE IF \E k \in DOMAIN acc : acc[k] = Head(seq)
         THEN DedupeInto(acc, Tail(seq))
         ELSE DedupeInto(Append(acc, Head(seq)), Tail(seq))

Dedupe(seq) == DedupeInto(<<>>, seq)

\* the final filter of the plain top-level exploration
NotMeta(name) == name # S_default /\ name # S_moduleExports

Frame(obj, path, depth) ==
    [obj |-> obj, path |-> path, depth |-> depth, phase |-> "enter", keys |-> <<>>]

NoOut == [status |-> "none", paths |-> <<>>]

\* no getFunctions call has been made
GfIdle == [pc |-> "idle", m |-> 1, mode |-> "none", functions |-> <<>>, visited |-> {},
           expanded |-> <<>>, stack |-> <<>>, out |-> [m \in Packages |-> NoOut]]

Top == gf.stack[Len(gf.stack)]
Pop == SubSeq(gf.stack, 1, Len(gf.stack) - 1)

IsNullish(v) == v.t \in {"null", "undefined"}
IsObjectLike(h, v) == v.t = "ref" /\ Typeof(h, v) \in {"object", "function"}

\* the number of function-valued keys among Object.keys(target)
FunctionKeys(h, o, skip) ==
    SelectSeq(o.props, LAMBDA p : p.enum /\ p.key # skip /\ IsFunctionProp(h, p))

\* an enumerable getter that throws is read by the typeof filters of the heuristics
EnumThrows(o, skip) ==
    \E k \in DOMAIN o.props : o.props[k].enum /\ o.props[k].key # skip /\ o.props[k].throws

\* (mutant) no heuristic: the package itself is always explored
Plan_AlwaysPackage(m) ==
    IF IsNullish(root[m]) THEN [threw |-> TRUE, start |-> Undefined, mode |-> "none"]
    ELSE [threw |-> FALSE, start |-> root[m], mode |-> "normal"]

\* what lines 206-232 decide for package m: a thrown error, or the root to explore
\* and the mode (how the result is returned)
Plan(m) ==
    LET h == heap[m]
        pkg == root[m]
        threw == [threw |-> TRUE, start |-> Undefined, mode |-> "none"]
    IN  IF IsNullish(pkg) THEN threw      \* Object.keys(pkg) throws a TypeError
        ELSE
        LET keys == ObjectKeys(h[pkg.s])
            hasDefault == \E k \in DOMAIN keys : keys[k] = S_default
            d == Get(h, pkg, S_default)
            dIsObject == ~d.threw /\ d.val.t = "ref" /\ Typeof(h, d.val) = "object"
            only == keys = <<S_default>>
        IN  IF (only \/ hasDefault) /\ d.threw THEN threw
            ELSE IF only /\ dIsObject /\ Len(ObjectKeys(h[d.val.s])) > 1
            THEN [threw |-> FALSE, start |-> d.val, mode |-> "defaultOnly"]
            ELSE IF hasDefault /\ dIsObject
            THEN IF EnumThrows(h[d.val.s], <<>>) \/ EnumThrows(h[pkg.s], S_default)
                 THEN threw
                 ELSE LET defaultKeys == FunctionKeys(h, h[d.val.s], <<>>)
                          topLevelFunctions == FunctionKeys(h, h[pkg.s], S_default)
                      IN  IF Len(defaultKeys) > Len(topLevelFunctions) /\ Len(defaultKeys) > 5
                          THEN [threw |-> FALSE, start |-> d.val, mode |-> "defaultRicher"]
                          ELSE [threw |-> FALSE, start |-> pkg, mode |-> "normal"]
            ELSE [threw |-> FALSE, start |-> pkg, mode |-> "normal"]

\* run() goes on after getFunctions(pkg m) returned; a throw ends run() in its catch
AfterCall(m, out) ==
    IF out.status = "threw" \/ m = 2
    THEN [gf EXCEPT !.pc = "done", !.out[m] = out, !.stack = <<>>]
    ELSE [gf EXCEPT !.pc = "call", !.m = 2, !.out[m] = out, !.stack = <<>>]

\* getFunctions(pkg) up to its call of explore
GetFunctionsEnter ==
    /\ gf.pc = "call"
    /\ LET plan == Plan(gf.m)
       IN  gf' = IF plan.threw
                 THEN AfterCall(gf.m, [status |-> "threw", paths |-> <<>>])
                 ELSE [gf EXCEPT !.pc = "explore", !.mode = plan.mode,
                                 !.functions = <<>>, !.visited = {},
                                 !.expanded = [id \in DOMAIN heap[gf.m] |-> 0],
                                 !.stack = <<Frame(plan.start, <<>>, 0)>>]
    /\ UNCHANGED benchVars

\* (mutant) explore without the visited set
Revisit_Always(id) == FALSE

\* visited.has(obj)
Revisit(id) == id \in gf.visited

\* explore(obj, path, depth) from its entry to the start of its loop over the keys
ExploreEnter ==
    /\ gf.pc = "explore"
    /\ gf.stack # <<>>
    /\ Top.phase = "enter"
    /\ LET h == heap[gf.m]
           f == Top
           n == Len(gf.stack)
       IN  gf' =
             IF f.depth > MaxDepthDefault \/ IsNullish(f.obj) THEN [gf EXCEPT !.stack = Pop]
             ELSE IF ~IsObjectLike(h, f.obj) THEN [gf EXCEPT !.stack = Pop]
             ELSE IF Revisit(f.obj.s) THEN [gf EXCEPT !.stack = Pop]
             ELSE LET o == h[f.obj.s]
                      fns == IF o.type = "function"
                             THEN Append(gf.functions, PathOrMain(f.path))
                             ELSE gf.functions
                  IN  IF KeysThrow(o)
                      THEN [gf EXCEPT !.visited = @ \cup {f.obj.s}, !.functions = fns,
                                      !.stack = Pop]
                      ELSE [gf EXCEPT !.visited = @ \cup {f.obj.s}, !.functions = fns,
                                      !.expanded[f.obj.s] = @ + 1,
                                      !.stack[n].phase = "loop",
                                      !.stack[n].keys = Keys(h, o)]
    /\ UNCHANGED benchVars

\* depth < maxDepth
Descend(depth) == depth < MaxDepthDefault

\* one iteration of `for (const key of keys)`
ExploreKey ==
    /\ gf.pc = "explore"
    /\ gf.stack # <<>>
    /\ Top.phase = "loop"
    /\ Top.keys # <<>>
    /\ LET h == heap[gf.m]
           f == Top
           n == Len(gf.stack)
           key == Head(f.keys)
           g == Get(h, f.obj, key)
           newPath == NewPath(f.path, key)
           rest == [gf EXCEPT !.stack[n].keys = Tail(f.keys)]
       IN  gf' =
             IF g.threw THEN rest
             ELSE LET isFn == Typeof(h, g.val) = "function"
                      fns == IF isFn THEN Append(gf.functions, newPath) ELSE gf.functions
                  IN  IF IsObjectLike(h, g.val) /\ Descend(f.depth)
                      THEN [rest EXCEPT !.functions = fns,
                                        !.stack = Append(@, Frame(g.val, newPath, f.depth + 1))]
                      ELSE [rest EXCEPT !.functions = fns]
    /\ UNCHANGED benchVars

\* explore returns to its caller
ExploreReturn ==
    /\ gf.pc = "explore"
    /\ gf.stack # <<>>
    /\ Top.phase = "loop"
    /\ Top.keys = <<>>
    /\ gf' = [gf EXCEPT !.stack = Pop]
    /\ UNCHANGED benchVars

\* the list getFunctions returns
Returned(mode, functions) ==
    IF mode = "normal" THEN SelectSeq(Dedupe(functions), NotMeta) ELSE Dedupe(functions)

\* getFunctions returns after its one call of explore
GetFunctionsReturn ==
    /\ gf.pc = "explore"
    /\ gf.stack = <<>>
    /\ gf' = AfterCall(gf.m, [status |-> "returned", paths |-> Returned(gf.mode, gf.functions)])
    /\ UNCHANGED benchVars

----------------------------------------------------------------------------
(* The modules that are explored *)


\* an enumerable own data property
Prop(key, val) == [key |-> key, enum |-> TRUE, throws |-> FALSE, val |-> val]

\* a non-enumerable own data property
Hidden(key, val) == [key |-> key, enum |-> FALSE, throws |-> FALSE, val |-> val]

\* an own accessor property whose getter throws
Hostile(key, enum) == [key |-> key, enum |-> enum, throws |-> TRUE, val |-> Undefined]

ObjectOf(props) == [type |-> "object", props |-> props]

\* a function: its own non-enumerable length and name, then what was added to it
FunctionOf(props) ==
    [type |-> "function",
     props |-> <<Hidden(K.length, Num("0")), Hidden(K.name, Str("fn"))>> \o props]

\* the modules that are explored and resolved in
M ==
    [
     \* const o = {}; o.self = o; o.f = () => {}
     self |->
            [root |-> Ref("o0"),
             heap |-> ("o0" :> ObjectOf(<<Prop(K.self, Ref("o0")), Prop(K.f, Ref("F1"))>>))
                      @@ ("F1" :> FunctionOf(<<>>))],
     mutual |->
            [root |-> Ref("o0"),
             heap |-> ("o0" :> ObjectOf(<<Prop(K.a, Ref("o1")), Prop(K.f, Ref("F1"))>>))
                      @@ ("o1" :> ObjectOf(<<Prop(K.b, Ref("o2")), Prop(K.g, Ref("F2"))>>))
                      @@ ("o2" :> ObjectOf(<<Prop(K.a, Ref("o1")), Prop(K.back, Ref("o0")), Prop(K.h, Ref("F1"))>>))
                      @@ ("F1" :> FunctionOf(<<>>))
                      @@ ("F2" :> FunctionOf(<<>>))],
     defaultOnly |->
            [root |-> Ref("o0"),
             heap |-> ("o0" :> ObjectOf(<<Prop(S_default, Ref("o1"))>>))
                      @@ ("o1" :> ObjectOf(<<Prop(K.x, Ref("F1")), Prop(K.uq, Ref("F3")), Prop(K.y, Ref("F2"))>>))
                      @@ ("F1" :> FunctionOf(<<>>))
                      @@ ("F2" :> FunctionOf(<<>>))
                      @@ ("F3" :> FunctionOf(<<>>))],
     mixed |->
            [root |-> Ref("o0"),
             heap |-> ("o0" :> ObjectOf(<<Prop(K.top, Ref("F1")), Prop(S_default, Ref("o1"))>>))
                      @@ ("o1" :> ObjectOf(<<Prop(K.x, Ref("F2")), Prop(K.y, Ref("F3"))>>))
                      @@ ("F1" :> FunctionOf(<<>>))
                      @@ ("F2" :> FunctionOf(<<>>))
                      @@ ("F3" :> FunctionOf(<<>>))],
     defaultFn |->
            [root |-> Ref("o0"),
             heap |-> ("o0" :> ObjectOf(<<Prop(S_default, Ref("F1")), Prop(K.util, Ref("o1"))>>))
                      @@ ("o1" :> ObjectOf(<<Prop(K.g, Ref("F2")), Prop(K.d, Num("7"))>>))
                      @@ ("F1" :> FunctionOf(<<>>))
                      @@ ("F2" :> FunctionOf(<<>>))],
     private |->
            [root |-> Ref("o0"),
             heap |-> ("o0" :> ObjectOf(<<Prop(K.up, Ref("F1")), Prop(K.constructor, Ref("F2")), Prop(K.util, Ref("o1")), Prop(K.name, Ref("F1"))>>))
                      @@ ("o1" :> ObjectOf(<<Prop(K.uq, Ref("F3")), Prop(K.ok, Ref("F4")), Prop(K.prototype, Ref("o2")), Prop(K.uur, Ref("o2"))>>))
                      @@ ("o2" :> ObjectOf(<<Prop(K.deep, Ref("F5"))>>))
                      @@ ("F1" :> FunctionOf(<<>>))
                      @@ ("F2" :> FunctionOf(<<>>))
                      @@ ("F3" :> FunctionOf(<<>>))
                      @@ ("F4" :> FunctionOf(<<>>))
                      @@ ("F5" :> FunctionOf(<<>>))],
     fnRoot |->
            [root |-> Ref("F0"),
             heap |-> ("F0" :> FunctionOf(<<Prop(K.helper, Ref("F1")), Prop(K.d, Null)>>))
                      @@ ("F1" :> FunctionOf(<<>>))],
     class |->
            [root |-> Ref("o0"),
             heap |-> ("o0" :> ObjectOf(<<Prop(K.Klass, Ref("F0"))>>))
                      @@ ("F0" :> FunctionOf(<<Hidden(K.create, Ref("F1")), Hidden(K.prototype, Ref("o1"))>>))
                      @@ ("o1" :> ObjectOf(<<Hidden(K.constructor, Ref("F0")), Hidden(K.method, Ref("F2"))>>))
                      @@ ("F1" :> FunctionOf(<<>>))
                      @@ ("F2" :> FunctionOf(<<>>))],
     deep |->
            [root |-> Ref("o0"),
             heap |-> ("o0" :> ObjectOf(<<Prop(K.a, Ref("o1")), Prop(K.f0, Ref("F1"))>>))
                      @@ ("o1" :> ObjectOf(<<Prop(K.b, Ref("o2"))>>))
                      @@ ("o2" :> ObjectOf(<<Prop(K.c, Ref("o3"))>>))
                      @@ ("o3" :> ObjectOf(<<Prop(K.d, Ref("o4")), Prop(K.f3, Ref("F2"))>>))
                      @@ ("o4" :> ObjectOf(<<Prop(K.e, Ref("o5")), Prop(K.f4, Ref("F3"))>>))
                      @@ ("o5" :> ObjectOf(<<Prop(K.f5, Ref("F4"))>>))
                      @@ ("F1" :> FunctionOf(<<>>))
                      @@ ("F2" :> FunctionOf(<<>>))
                      @@ ("F3" :> FunctionOf(<<>>))
                      @@ ("F4" :> FunctionOf(<<>>))],
     rich |->
            [root |-> Ref("o0"),
             heap |-> ("o0" :> ObjectOf(<<Prop(K.top, Ref("F0")), Prop(S_default, Ref("o1"))>>))
                      @@ ("o1" :> ObjectOf(<<Prop(K.m1, Ref("F1")), Prop(K.m2, Ref("F2")), Prop(K.m3, Ref("F3")), Prop(K.m4, Ref("F4")), Prop(K.m5, Ref("F5")), Prop(K.m6, Ref("F6"))>>))
                      @@ ("F0" :> FunctionOf(<<>>))
                      @@ ("F1" :> FunctionOf(<<>>))
                      @@ ("F2" :> FunctionOf(<<>>))
                      @@ ("F3" :> FunctionOf(<<>>))
                      @@ ("F4" :> FunctionOf(<<>>))
                      @@ ("F5" :> FunctionOf(<<>>))
                      @@ ("F6" :> FunctionOf(<<>>))],
     \* { default: { x() {} } }
     defaultSingle |->
            [root |-> Ref("o0"),
             heap |-> ("o0" :> ObjectOf(<<Prop(S_default, Ref("o1"))>>))
                      @@ ("o1" :> ObjectOf(<<Prop(K.x, Ref("F1"))>>))
                      @@ ("F1" :> FunctionOf(<<>>))],
     \* { default: { m1, m2, m3, m4, m5 }, d: 7 }: five functions under default
     five |->
            [root |-> Ref("o0"),
             heap |-> ("o0" :> ObjectOf(<<Prop(S_default, Ref("o1")), Prop(K.d, Num("7"))>>))
                      @@ ("o1" :> ObjectOf(<<Prop(K.m1, Ref("F1")), Prop(K.m2, Ref("F2")), Prop(K.m3, Ref("F3")), Prop(K.m4, Ref("F4")), Prop(K.m5, Ref("F5"))>>))
                      @@ ("F1" :> FunctionOf(<<>>))
                      @@ ("F2" :> FunctionOf(<<>>))
                      @@ ("F3" :> FunctionOf(<<>>))
                      @@ ("F4" :> FunctionOf(<<>>))
                      @@ ("F5" :> FunctionOf(<<>>))],
     \* { '': function () {}, a: { '': function () {} } }
     emptyKey |->
            [root |-> Ref("o0"),
             heap |-> ("o0" :> ObjectOf(<<Prop(<<>>, Ref("F1")), Prop(K.a, Ref("o1"))>>))
                      @@ ("o1" :> ObjectOf(<<Prop(<<>>, Ref("F2"))>>))
                      @@ ("F1" :> FunctionOf(<<>>))
                      @@ ("F2" :> FunctionOf(<<>>))],
     \* const s = { d: { f() {} } }; pkg = { a: { b: { c: s } }, x: s }
     shared |->
            [root |-> Ref("o0"),
             heap |-> ("o0" :> ObjectOf(<<Prop(K.a, Ref("o1")), Prop(K.x, Ref("o3"))>>))
                      @@ ("o1" :> ObjectOf(<<Prop(K.b, Ref("o2"))>>))
                      @@ ("o2" :> ObjectOf(<<Prop(K.c, Ref("o3"))>>))
                      @@ ("o3" :> ObjectOf(<<Prop(K.d, Ref("o4"))>>))
                      @@ ("o4" :> ObjectOf(<<Prop(K.f, Ref("F1"))>>))
                      @@ ("F1" :> FunctionOf(<<>>))],
     empty |->
            [root |-> Ref("o0"),
             heap |-> ("o0" :> ObjectOf(<<>>))],
     \* no module at all
     null |->
        [root |-> Null, heap |-> <<>>],
     undefined |->
        [root |-> Undefined, heap |-> <<>>]
    ]

BaseModules == {M.self, M.mutual, M.defaultOnly, M.mixed, M.defaultFn, M.private, M.fnRoot, M.class, M.deep, M.rich, M.defaultSingle, M.five, M.emptyKey, M.shared, M.empty, M.null, M.undefined}

\* where one hostile property can sit: on any object or function of the module,
\* enumerable or not, before or after the other properties
HostilePlaces(mod) == (DOMAIN mod.heap) \X BOOLEAN \X {"first", "last"}

\* the module with one hostile property `bad` added at the place
WithHostile(mod, place) ==
    LET id == place[1]
        bad == Hostile(K.bad, place[2])
        o == mod.heap[id]
    IN  [mod EXCEPT !.heap[id].props =
            IF place[3] = "first" THEN <<bad>> \o o.props ELSE o.props \o <<bad>>]

----------------------------------------------------------------------------
(* The packages that are benchmarked *)

S_nope == <<"n", "o", "p", "e", ".", "x">>

\* { run: function () {...}, data: 7 }
BenchModule ==
    [id \in {"o0", "F"} |->
        IF id = "o0"
        THEN [type |-> "object", props |-> <<Prop(K.run, Ref("F")), Prop(K.data, Num("7"))>>]
        ELSE [type |-> "function", props |-> <<>>]]

\* a callable, a value that is no callable, a path that leads nowhere
BenchPaths == {K.run, K.data, S_nope}

\* what the callable can return or resolve to
ReturnValues == {Undefined, Str("HelloWorld"), Str("Hello world"),
                 Obj(<<<<"a", 1>>, <<"b", 2>>>>), Obj(<<<<"b", 2>>, <<"a", 1>>>>)}

\* what the callable can throw or reject with: new Error('boom'), new Error(''), 'oops'
Thrown == {[isError |-> TRUE, message |-> "boom"], [isError |-> TRUE, message |-> ""],
           [isError |-> FALSE, message |-> "oops"]}

NoThrown == [isError |-> FALSE, message |-> ""]

\* one invocation: returns a value, returns a thenable that resolves or rejects, or throws
Outcomes ==
    [kind : {"return", "resolve"}, value : ReturnValues, thrown : {NoThrown}]
    \cup [kind : {"throw", "reject"}, value : {Undefined}, thrown : Thrown]

NoOutcome == [kind |-> "none", value |-> Undefined, thrown |-> NoThrown]

\* parseArguments has not returned
NoArgs == [returned |-> FALSE, list |-> <<>>]

Succeeds(o) == o.kind \in {"return", "resolve"}

----------------------------------------------------------------------------
(* benchmarkFunction *)

RECURSIVE Sum(_)
Sum(seq) == IF seq = <<>> THEN 0 ELSE Head(seq) + Sum(Tail(seq))

\* (mutant) the average over no measurement is zero
Average_ZeroWhenEmpty(arr) == [sum |-> Sum(arr), n |-> IF arr = <<>> THEN 1 ELSE Len(arr)]

\* arr.reduce((a, b) => a + b, 0) / arr.length, kept as a fraction; 0/0 is NaN
Average(arr) == [sum |-> Sum(arr), n |-> Len(arr)]

IsNaN(a) == a.n = 0

\* a < b on two averages (false when either is NaN)
Less(a, b) == ~IsNaN(a) /\ ~IsNaN(b) /\ a.sum * b.n < b.sum * a.n

NoResult == [function |-> <<>>, time |-> Average(<<>>), memory |-> Average(<<>>),
             result |-> Undefined, error |-> Undefined, returned |-> FALSE]

\* the function benchmarkFunction finds for package m; c is callables[functionPath],
\* what export-scanner's getExports holds at the path ('vs' revision only)
ResolveFunc(m, c) ==
    IF revision = 1
    THEN getValue(heap[m], root[m], functionPath[m])
    ELSE IF Truthy(c) THEN [threw |-> FALSE, val |-> c]
    ELSE LET v == getValue(heap[m], root[m], functionPath[m])
             d == Get(heap[m], root[m], S_default)
             dv == Get(heap[m], d.val, functionPath[m])
             pv == Get(heap[m], root[m], functionPath[m])
         IN  IF v.threw \/ Truthy(v.val) THEN v
             ELSE IF d.threw THEN d
             ELSE IF Truthy(d.val) /\ dv.threw THEN dv
             ELSE IF Truthy(d.val) /\ Truthy(dv.val) THEN dv
             ELSE IF pv.threw \/ Truthy(pv.val) THEN pv
             ELSE v

\* new TypeError(`${functionPath} is not a function`), for the path of the call
NotAFunctionError == "TypeError: <functionPath> is not a function"

\* err instanceof Error ? err.message : 'Unknown error'
ErrorMessage(err) == IF err.isError THEN err.message ELSE "Unknown error"

\* (mutant) the loop runs once more than configured
LoopCondition_OffByOne == ~runs.nan /\ i <= runs.n

\* the loop condition i < this.runs
LoopCondition == ~runs.nan /\ i < runs.n

BenchmarkEnter ==
    /\ pc = "benchmark"
    /\ \E c \in {Undefined, Ref("F")} :
       LET f == ResolveFunc(cur, c)
       IN IF f.threw \/ Typeof(heap[cur], f.val) # "function"
          THEN /\ caught' = (IF f.threw THEN "TypeError: cannot read properties"
                                         ELSE NotAFunctionError)
               /\ pc' = "finally"
               /\ func' = (IF f.threw THEN func ELSE f.val)
               /\ UNCHANGED <<i, broke, times, memories, result, error, lastOutcome>>
          ELSE /\ func' = f.val
               /\ i' = 0
               /\ lastOutcome' = NoOutcome
               /\ broke' = FALSE
               /\ times' = <<>>
               /\ memories' = <<>>
               /\ result' = Undefined
               /\ error' = Undefined
               /\ pc' = "loop"
               /\ UNCHANGED caught
    /\ UNCHANGED <<revision, runs, heap, root, functionPath, cur, results,
                   report, ncalls, failedAt, input, parsedArgs, argv, pending, gf>>

\* an object with a callable `then`, as func returned it
Thenable == [t |-> "thenable", s |-> "", kv |-> <<>>]

\* func.apply(null, args), when it does not throw
Applied(o) == IF o.kind \in {"resolve", "reject"} THEN Thenable ELSE o.value

\* result && typeof result.then === 'function'
IsThenable(v) == Truthy(v) /\ v.t = "thenable"

Completes(v) == [threw |-> FALSE, value |-> v]
Raises == [threw |-> TRUE, value |-> Undefined]

\* (mutant) the returned value is taken as it is, thenable or not
TryBlock_NoAwait(o) ==
    IF o.kind = "throw" THEN Raises ELSE Completes(Applied(o))

\* the try block: the call, and the await of a thenable it returned
TryBlock(o) ==
    IF o.kind = "throw" THEN Raises
    ELSE IF IsThenable(Applied(o))
         THEN (IF o.kind = "resolve" THEN Completes(o.value) ELSE Raises)
    ELSE Completes(Applied(o))

\* the try block completes: the value (awaited when it is a thenable) is measured
InvokeSucceeds(o, ms) ==
    /\ result' = TryBlock(o).value
    /\ times' = Append(times, ms.time)
    /\ memories' = Append(memories, ms.memory)
    /\ i' = i + 1
    /\ UNCHANGED <<error, broke, failedAt>>

\* (mutant) the catch block without its `break`
InvokeFails_NoBreak(o) ==
    /\ error' = Str(ErrorMessage(o.thrown))
    /\ result' = Null
    /\ i' = i + 1
    /\ failedAt' = [failedAt EXCEPT ![cur] = IF @ = 0 THEN ncalls[cur] + 1 ELSE @]
    /\ UNCHANGED <<times, memories, broke>>

\* the catch block
InvokeFails(o) ==
    /\ error' = Str(ErrorMessage(o.thrown))
    /\ result' = Null
    /\ broke' = TRUE
    /\ failedAt' = [failedAt EXCEPT ![cur] = IF @ = 0 THEN ncalls[cur] + 1 ELSE @]
    /\ UNCHANGED <<times, memories, i>>

\* one iteration of the for loop
Invoke ==
    /\ pc = "loop"
    /\ ~broke
    /\ LoopCondition
    /\ \E o \in Outcomes :
          /\ ncalls' = [ncalls EXCEPT ![cur] = @ + 1]
          /\ lastOutcome' = o
          /\ IF ~TryBlock(o).threw
             THEN \E ms \in Measurements : InvokeSucceeds(o, ms)
             ELSE InvokeFails(o)
    /\ UNCHANGED <<revision, runs, heap, root, functionPath, pc, cur, results,
                   caught, report, func, input, parsedArgs, argv, pending, gf>>

\* the averages and the return; run() goes on with the next call or with displayResults
BenchmarkReturn ==
    /\ pc = "loop"
    /\ broke \/ ~LoopCondition
    /\ results' = [results EXCEPT ![cur] =
                      [function |-> functionPath[cur], time |-> Average(times),
                       memory |-> Average(memories), result |-> result, error |-> error,
                       returned |-> TRUE]]
    /\ IF cur = 1 THEN cur' = 2 /\ pc' = "benchmark"
                  ELSE cur' = cur /\ pc' = "display"
    /\ UNCHANGED <<revision, runs, heap, root, functionPath, i, broke, times,
                   memories, result, error, caught, report, ncalls, failedAt,
                   lastOutcome, func, input, parsedArgs, argv, pending, gf>>

----------------------------------------------------------------------------
(* displayResults *)

\* results.filter(r => !r.error), as the package numbers in order
SuccessfulResults == SelectSeq(<<1, 2>>, LAMBDA m : ~Truthy(results[m].error))

\* the per-result lines: JSON.stringify(result.result).length throws on undefined
ResultLinesThrow ==
    \E m \in Packages : ~Truthy(results[m].error) /\ JSONstringify(results[m].result) = Undefined

\* (mutant) the first result always wins
Winner_First(s) == s[1]

\* (mutant) the comparison is <= instead of <
Winner_LessOrEqual(s) == IF ~Less(results[s[2]].time, results[s[1]].time) THEN s[1] ELSE s[2]

Winner(s) == IF Less(results[s[1]].time, results[s[2]].time) THEN s[1] ELSE s[2]
Loser(s)  == IF Less(results[s[1]].time, results[s[2]].time) THEN s[2] ELSE s[1]

\* (loser.time / winner.time).toFixed(2), in hundredths when it is a finite number
Ratio(l, w) ==
    LET a == l.sum * w.n
        b == l.n * w.sum
    IN  IF IsNaN(l) \/ IsNaN(w) \/ (a = 0 /\ b = 0) THEN [kind |-> "NaN", hundredths |-> 0]
        ELSE IF b = 0 THEN [kind |-> "Infinity", hundredths |-> 0]
        ELSE [kind |-> "finite", hundredths |-> (200 * a + b) \div (2 * b)]

\* the "don't return the same value" note: only the 'vs' revision prints it
Warned(s) ==
    /\ revision = 2
    /\ JSONstringify(results[s[1]].result) # JSONstringify(results[s[2]].result)

DisplayTypeError == "TypeError: cannot read properties of undefined (reading 'length')"

NoReport == [shown |-> FALSE, winner |-> 0, loser |-> 0,
             ratio |-> [kind |-> "none", hundredths |-> 0], warned |-> FALSE]

DisplayResults ==
    /\ pc = "display"
    /\ IF ResultLinesThrow
       THEN /\ caught' = DisplayTypeError
            /\ UNCHANGED report
       ELSE /\ LET s == SuccessfulResults
               IN report' =
                    IF Len(s) = 2
                    THEN [shown |-> TRUE, winner |-> Winner(s), loser |-> Loser(s),
                          ratio |-> Ratio(results[Loser(s)].time, results[Winner(s)].time),
                          warned |-> Warned(s)]
                    ELSE [NoReport EXCEPT !.shown = TRUE]
            /\ UNCHANGED caught
    /\ pc' = "finally"
    /\ UNCHANGED <<revision, runs, heap, root, functionPath, cur, i, broke,
                   times, memories, result, error, results, ncalls, failedAt,
                   lastOutcome, func, input, parsedArgs, argv, pending, gf>>

\* the finally block of run()/runCLI()
Cleanup ==
    /\ pc = "finally"
    /\ pc' = "done"
    /\ UNCHANGED <<revision, runs, heap, root, functionPath, cur, i, broke,
                   times, memories, result, error, results, caught, report, ncalls,
                   failedAt, lastOutcome, func, input, parsedArgs, argv, pending, gf>>

----------------------------------------------------------------------------
(* run()/runCLI() from the first benchmarkFunction call on *)


Init ==
    /\ revision \in {1, 2}
    /\ runs \in {NumberOf(n) : n \in 1..MaxRuns}
    /\ heap = [m \in Packages |-> BenchModule]
    /\ root = [m \in Packages |-> Ref("o0")]
    /\ functionPath \in [Packages -> BenchPaths]
    /\ pc = "benchmark"
    /\ cur = 1
    /\ i = 0
    /\ broke = FALSE
    /\ times = <<>>
    /\ memories = <<>>
    /\ result = Undefined
    /\ error = Undefined
    /\ results = [m \in Packages |-> NoResult]
    /\ caught = NoError
    /\ report = NoReport
    /\ ncalls = [m \in Packages |-> 0]
    /\ failedAt = [m \in Packages |-> 0]
    /\ lastOutcome = NoOutcome
    /\ func = Undefined
    /\ argv = NoArgv
    /\ pending = {}
    /\ input = <<>>
    /\ parsedArgs = NoArgs
    /\ gf = GfIdle

Next ==
    \/ BenchmarkEnter
    \/ Invoke
    \/ BenchmarkReturn
    \/ DisplayResults
    \/ Cleanup

Spec == Init /\ [][Next]_vars

----------------------------------------------------------------------------
(* benchmarkFunction on the event loop: the call, the settling of the thenable *)
(* it returned and the measurement are separate steps                          *)

\* (mutant) the returned value is never awaited
Awaited_Never(v) == FALSE

\* if (result && typeof result.then === 'function') result = await result
Awaited(v) == IsThenable(v)

\* result = func.apply(null, args): a throw goes to the catch block at once, a
\* thenable suspends benchmarkFunction until it settles
Call ==
    /\ pc = "loop"
    /\ ~broke
    /\ LoopCondition
    /\ \E o \in Outcomes :
          /\ ncalls' = [ncalls EXCEPT ![cur] = @ + 1]
          /\ lastOutcome' = o
          /\ IF o.kind = "throw"
             THEN /\ InvokeFails(o)
                  /\ UNCHANGED <<pc, pending>>
             ELSE /\ result' = Applied(o)
                  /\ pending' = IF IsThenable(Applied(o))
                                THEN pending \cup {<<cur, ncalls[cur] + 1>>}
                                ELSE pending
                  /\ pc' = IF Awaited(Applied(o)) THEN "await" ELSE "measure"
                  /\ UNCHANGED <<error, broke, failedAt, times, memories, i>>
    /\ UNCHANGED <<revision, runs, heap, root, functionPath, cur, results,
                   caught, report, func, input, parsedArgs, argv, gf>>

\* the thenable settles and benchmarkFunction resumes: with its value, or in the
\* catch block
Settle ==
    /\ pc = "await"
    /\ <<cur, ncalls[cur]>> \in pending
    /\ pending' = pending \ {<<cur, ncalls[cur]>>}
    /\ IF lastOutcome.kind = "resolve"
       THEN /\ result' = lastOutcome.value
            /\ pc' = "measure"
            /\ UNCHANGED <<error, broke, failedAt, times, memories, i>>
       ELSE /\ InvokeFails(lastOutcome)
            /\ pc' = "loop"
    /\ UNCHANGED <<revision, runs, heap, root, functionPath, cur, results,
                   caught, report, ncalls, lastOutcome, func, input, parsedArgs,
                   argv, gf>>

\* end = performance.now() ... memories.push(...); i++
Measure ==
    /\ pc = "measure"
    /\ \E ms \in Measurements :
          /\ times' = Append(times, ms.time)
          /\ memories' = Append(memories, ms.memory)
    /\ i' = i + 1
    /\ pc' = "loop"
    /\ UNCHANGED <<revision, runs, heap, root, functionPath, cur, broke, result,
                   error, results, caught, report, ncalls, failedAt, lastOutcome,
                   func, input, parsedArgs, argv, pending, gf>>

NextSchedule ==
    \/ BenchmarkEnter
    \/ Call
    \/ Settle
    \/ Measure
    \/ BenchmarkReturn

SpecSchedule == Init /\ [][NextSchedule]_vars

----------------------------------------------------------------------------
(* getFunctions(pkg1), then getFunctions(pkg2), as run() calls them.  Package 1  *)
(* is a module with at most one hostile property, package 2 the same module     *)
(* without it.                                                                  *)

InitExplore ==
    /\ \E base \in BaseModules :
         \E one \in {base} \cup {WithHostile(base, place) : place \in HostilePlaces(base)} :
            /\ heap = <<one.heap, base.heap>>
            /\ root = <<one.root, base.root>>
    /\ gf = [GfIdle EXCEPT !.pc = "call"]
    /\ revision = 1
    /\ runs = NumberOf(1)
    /\ functionPath = [m \in Packages |-> <<>>]
    /\ pc = "functions"
    /\ cur = 1
    /\ i = 0
    /\ broke = FALSE
    /\ times = <<>>
    /\ memories = <<>>
    /\ result = Undefined
    /\ error = Undefined
    /\ results = [m \in Packages |-> NoResult]
    /\ caught = NoError
    /\ report = NoReport
    /\ ncalls = [m \in Packages |-> 0]
    /\ failedAt = [m \in Packages |-> 0]
    /\ lastOutcome = NoOutcome
    /\ func = Undefined
    /\ argv = NoArgv
    /\ pending = {}
    /\ input = <<>>
    /\ parsedArgs = NoArgs

NextExplore ==
    \/ GetFunctionsEnter
    \/ ExploreEnter
    \/ ExploreKey
    \/ ExploreReturn
    \/ GetFunctionsReturn

\* getFunctions is synchronous code: every step that can be taken is taken
SpecExplore == InitExplore /\ [][NextExplore]_vars /\ WF_vars(NextExplore)

----------------------------------------------------------------------------
(* run(): from the two getFunctions calls to the first benchmarkFunction call *)

\* functions.push('default') when the list is empty, then the list prompt
Choices(m) ==
    IF gf.out[m].paths = <<>> THEN {S_default}
    ELSE {gf.out[m].paths[k] : k \in DOMAIN gf.out[m].paths}

\* the user picks one entry of each list
ChooseFunction ==
    /\ pc = "functions"
    /\ gf.pc = "done"
    /\ \A m \in Packages : gf.out[m].status = "returned"
    /\ \E function1 \in Choices(1), function2 \in Choices(2) :
          functionPath' = <<function1, function2>>
    /\ pc' = "benchmark"
    /\ UNCHANGED <<revision, runs, heap, root, cur, i, broke, times, memories, result,
                   error, results, caught, report, ncalls, failedAt, lastOutcome,
                   func, input, parsedArgs, argv, pending, gf>>

NextRoundTrip ==
    \/ GetFunctionsEnter
    \/ ExploreEnter
    \/ ExploreKey
    \/ ExploreReturn
    \/ GetFunctionsReturn
    \/ ChooseFunction
    \/ BenchmarkEnter

SpecRoundTrip == InitExplore /\ [][NextRoundTrip]_vars

----------------------------------------------------------------------------
(* JSON.parse, on a string given as the sequence of its characters *)

\* the no-break space U+00A0, one character
NBSP == "u00A0"

\* the whitespace of the JSON grammar
JSONWhitespace == {" ", "\t", "\n", "\r"}

\* what String.prototype.trim strips: WhiteSpace and LineTerminator
TrimWhitespace == JSONWhitespace \cup {NBSP, "\f"}

\* the characters a JSON string may not hold unescaped (U+0000 to U+001F)
ControlChars == {"\t", "\n", "\r", "\f"}

Digits == {"0", "1", "2", "3", "4", "5", "6", "7", "8", "9"}

DigitValue(c) ==
    CASE c = "0" -> 0 [] c = "1" -> 1 [] c = "2" -> 2 [] c = "3" -> 3 [] c = "4" -> 4
      [] c = "5" -> 5 [] c = "6" -> 6 [] c = "7" -> 7 [] c = "8" -> 8 [] c = "9" -> 9

RECURSIVE IntValue(_, _)
IntValue(digits, acc) ==
    IF digits = <<>> THEN acc
    ELSE IntValue(Tail(digits), 10 * acc + DigitValue(Head(digits)))

\* the values JSON.parse builds
JArray(elements)  == [t |-> "array", s |-> "", kv |-> elements]
JObject(members)  == [t |-> "object", s |-> "", kv |-> members]
JString(chars)    == [t |-> "string", s |-> "", kv |-> chars]
JBoolean(b)       == [t |-> "boolean", s |-> "", kv |-> <<b>>]
JNumber(n, frac, exp) == [t |-> "number", s |-> "", kv |-> <<n, frac, exp>>]

\* a parse step: it failed (SyntaxError), or it read val and stopped before pos
Failed == [ok |-> FALSE, val |-> Null, pos |-> 0]
Read(val, pos) == [ok |-> TRUE, val |-> val, pos |-> pos]

\* str from position p on starts with lit
StartsAt(str, p, lit) ==
    /\ p + Len(lit) - 1 <= Len(str)
    /\ SubSeq(str, p, p + Len(lit) - 1) = lit

\* the first position from p on that holds no whitespace
RECURSIVE SkipWhitespace(_, _)
SkipWhitespace(str, p) ==
    IF p <= Len(str) /\ str[p] \in JSONWhitespace THEN SkipWhitespace(str, p + 1) ELSE p

\* the first position from p on that holds no digit
RECURSIVE SkipDigits(_, _)
SkipDigits(str, p) ==
    IF p <= Len(str) /\ str[p] \in Digits THEN SkipDigits(str, p + 1) ELSE p

\* number: -? (0 | [1-9][0-9]*) (. [0-9]+)? ([eE] [+-]? [0-9]+)?
ParseNumber(str, p) ==
    LET a == IF str[p] = "-" THEN p + 1 ELSE p
        b == IF a > Len(str) \/ str[a] \notin Digits THEN 0
             ELSE IF str[a] = "0" THEN a + 1
             ELSE SkipDigits(str, a)
        c == IF b = 0 THEN 0
             ELSE IF b <= Len(str) /\ str[b] = "."
                  THEN (IF SkipDigits(str, b + 1) > b + 1 THEN SkipDigits(str, b + 1) ELSE 0)
             ELSE b
        e == IF c # 0 /\ c + 1 <= Len(str) /\ str[c + 1] \in {"+", "-"} THEN c + 2 ELSE c + 1
        d == IF c = 0 THEN 0
             ELSE IF c <= Len(str) /\ str[c] \in {"e", "E"}
                  THEN (IF SkipDigits(str, e) > e THEN SkipDigits(str, e) ELSE 0)
             ELSE c
    IN  IF d = 0 THEN Failed
        ELSE Read(JNumber((IF a = p THEN 1 ELSE -1) * IntValue(SubSeq(str, a, b - 1), 0),
                          SubSeq(str, b, c - 1), SubSeq(str, c, d - 1)), d)

\* the backspace U+0008, one character
BS == "u0008"

HexDigits == Digits \cup {"a", "b", "c", "d", "e", "f", "A", "B", "C", "D", "E", "F"}

\* the character an escape sequence \c stands for
Unescape(c) ==
    CASE c = "b" -> BS [] c = "f" -> "\f" [] c = "n" -> "\n" [] c = "r" -> "\r"
      [] c = "t" -> "\t" [] OTHER -> c

\* string: the characters after the opening quote, up to the closing quote
RECURSIVE ParseString(_, _, _)
ParseString(str, p, acc) ==
    IF p > Len(str) THEN Failed
    ELSE IF str[p] = "\"" THEN Read(JString(acc), p + 1)
    ELSE IF str[p] = "\\"
         THEN IF p + 1 <= Len(str) /\ str[p + 1] \in {"\"", "\\", "/", "b", "f", "n", "r", "t"}
              THEN ParseString(str, p + 2, Append(acc, Unescape(str[p + 1])))
              ELSE IF /\ p + 5 <= Len(str) /\ str[p + 1] = "u"
                      /\ \A k \in 2..5 : str[p + k] \in HexDigits
              THEN ParseString(str, p + 6,
                       Append(acc, "u" \o str[p + 2] \o str[p + 3] \o str[p + 4] \o str[p + 5]))
              ELSE Failed
    ELSE IF str[p] \in ControlChars THEN Failed
    ELSE ParseString(str, p + 1, Append(acc, str[p]))

\* obj[key] = val on the members read so far: a repeated key keeps its place
SetMember(members, key, val) ==
    IF \E k \in DOMAIN members : members[k][1] = key
    THEN [k \in DOMAIN members |-> IF members[k][1] = key THEN <<key, val>> ELSE members[k]]
    ELSE Append(members, <<key, val>>)

RECURSIVE ParseValue(_, _)
RECURSIVE ParseElements(_, _, _)
RECURSIVE ParseMembers(_, _, _)

\* value: str[p] is its first character
ParseValue(str, p) ==
    IF p > Len(str) THEN Failed
    ELSE IF str[p] = "["
         THEN LET q == SkipWhitespace(str, p + 1)
              IN IF q <= Len(str) /\ str[q] = "]" THEN Read(JArray(<<>>), q + 1)
                 ELSE ParseElements(str, q, <<>>)
    ELSE IF str[p] = "{"
         THEN LET q == SkipWhitespace(str, p + 1)
              IN IF q <= Len(str) /\ str[q] = "}" THEN Read(JObject(<<>>), q + 1)
                 ELSE ParseMembers(str, q, <<>>)
    ELSE IF str[p] = "\"" THEN ParseString(str, p + 1, <<>>)
    ELSE IF str[p] \in Digits \cup {"-"} THEN ParseNumber(str, p)
    ELSE IF StartsAt(str, p, <<"t", "r", "u", "e">>) THEN Read(JBoolean(TRUE), p + 4)
    ELSE IF StartsAt(str, p, <<"f", "a", "l", "s", "e">>) THEN Read(JBoolean(FALSE), p + 5)
    ELSE IF StartsAt(str, p, <<"n", "u", "l", "l">>) THEN Read(Null, p + 4)
    ELSE Failed

\* elements: value (, value)* ], with str[p] the first character of a value
ParseElements(str, p, acc) ==
    LET v == ParseValue(str, p)
    IN  IF ~v.ok THEN Failed
        ELSE LET q == SkipWhitespace(str, v.pos)
             IN IF q > Len(str) THEN Failed
                ELSE IF str[q] = "]" THEN Read(JArray(Append(acc, v.val)), q + 1)
                ELSE IF str[q] = ","
                     THEN ParseElements(str, SkipWhitespace(str, q + 1), Append(acc, v.val))
                ELSE Failed

\* members: string : value (, string : value)* }, with str[p] the first character of a key
ParseMembers(str, p, acc) ==
    IF p > Len(str) \/ str[p] # "\"" THEN Failed
    ELSE LET k == ParseString(str, p + 1, <<>>)
         IN IF ~k.ok THEN Failed
            ELSE LET c == SkipWhitespace(str, k.pos)
                 IN IF c > Len(str) \/ str[c] # ":" THEN Failed
                    ELSE LET v == ParseValue(str, SkipWhitespace(str, c + 1))
                         IN IF ~v.ok THEN Failed
                            ELSE LET q == SkipWhitespace(str, v.pos)
                                     members == SetMember(acc, k.val.kv, v.val)
                                 IN IF q > Len(str) THEN Failed
                                    ELSE IF str[q] = "}" THEN Read(JObject(members), q + 1)
                                    ELSE IF str[q] = ","
                                         THEN ParseMembers(str, SkipWhitespace(str, q + 1), members)
                                    ELSE Failed

\* JSON.parse(str): whitespace, one value, whitespace
JSONparse(str) ==
    LET v == ParseValue(str, SkipWhitespace(str, 1))
    IN  IF v.ok /\ SkipWhitespace(str, v.pos) = Len(str) + 1 THEN v ELSE Failed

----------------------------------------------------------------------------
(* parseArguments *)

MaxInput == 4

RECURSIVE TrimStart(_)
TrimStart(str) ==
    IF str # <<>> /\ Head(str) \in TrimWhitespace THEN TrimStart(Tail(str)) ELSE str

RECURSIVE TrimEnd(_)
TrimEnd(str) ==
    IF str # <<>> /\ str[Len(str)] \in TrimWhitespace
    THEN TrimEnd(SubSeq(str, 1, Len(str) - 1)) ELSE str

\* str.trim()
Trim(str) == TrimEnd(TrimStart(str))

\* str.endsWith(suffix)
EndsWith(str, suffix) ==
    Len(str) >= Len(suffix) /\ SubSeq(str, Len(str) - Len(suffix) + 1, Len(str)) = suffix

ArraySyntaxError  == "Invalid JSON array syntax. Please check your brackets, quotes, and commas."
ObjectSyntaxError == "Invalid JSON object syntax. Please check your brackets, quotes, and commas."

Returns(list) == [threw |-> FALSE, message |-> "", list |-> list]
Throws(message) == [threw |-> TRUE, message |-> message, list |-> <<>>]

\* (mutant) any whitespace makes the input non-empty
IsBlank_EmptyOnly(str) == str = <<>>

\* !input.trim()
IsBlank(str) == Trim(str) = <<>>

\* (mutant) the parsed value is wrapped whatever it is
WrapParsed_Always(parsed) == <<parsed>>

\* Array.isArray(parsed) ? parsed : [parsed]
WrapParsed(parsed) == IF parsed.t = "array" THEN parsed.kv ELSE <<parsed>>

\* (mutant) an opening bracket alone makes it look like an array
LooksLikeArray_OpenOnly(trimmed) == StartsWith(trimmed, <<"[">>)

\* trimmed.startsWith('[') && trimmed.endsWith(']')
LooksLikeArray(trimmed) == StartsWith(trimmed, <<"[">>) /\ EndsWith(trimmed, <<"]">>)

\* (mutant) braces are not looked at
LooksLikeObject_Never(trimmed) == FALSE

\* trimmed.startsWith('{') && trimmed.endsWith('}')
LooksLikeObject(trimmed) == StartsWith(trimmed, <<"{">>) /\ EndsWith(trimmed, <<"}">>)

\* (mutant) the input is returned as it came
SingleString_Untrimmed(str) == <<JString(str)>>

\* const trimmed = input.trim(); ... return [trimmed]
SingleString(str) == <<JString(Trim(str))>>

parseArguments(str) ==
    IF IsBlank(str) THEN Returns(<<>>)
    ELSE LET parsed == JSONparse(str)
         IN IF parsed.ok THEN Returns(WrapParsed(parsed.val))
            ELSE IF LooksLikeArray(Trim(str)) THEN Throws(ArraySyntaxError)
            ELSE IF LooksLikeObject(Trim(str)) THEN Throws(ObjectSyntaxError)
            ELSE Returns(SingleString(str))

\* the characters of the argument texts that are tried in every combination
ArgumentChars == {"[", "]", "{", "}", ",", "1", "\"", " ", NBSP}

\* argument texts of the README and of other shapes
ArgumentExamples ==
    { <<"h", "e", "l", "l", "o", " ", "w", "o", "r", "l", "d">>,
     <<"[", "]">>,
     <<"[", "\"", "h", "e", "l", "l", "o", " ", "w", "o", "r", "l", "d", "\"", "]">>,
     <<"[", "\"", "h", "e", "l", "l", "o", "\"", ",", " ", "{", "\"", "n", "o", "r", "m", "a", "l", "i", "z", "e", "\"", ":", " ", "t", "r", "u", "e", "}", "]">>,
     <<"[", "4", "2", ",", " ", "1", "0", "0", "]">>,
     <<"[", "[", "1", ",", "2", ",", "3", "]", "]">>,
     <<"[", "\"", "a", "\"", ",", "\"", "b", "\"", "]">>,
     <<"{", "\"", "x", "\"", ":", "1", "}">>,
     <<"[", "1", ",", "2", ",">>,
     <<"n", "u", "l", "l">>,
     <<"t", "r", "u", "e">>,
     <<"f", "a", "l", "s", "e">>,
     <<"\"", "h", "i", "\"">>,
     <<"-", "1", ".", "5", "e", "+", "3">>,
     <<"0", "1">>,
     <<"{", "\"", "a", "\"", ":", "1", ",", "\"", "a", "\"", ":", "2", "}">>,
     <<"{", "'", "x", "'", ":", "1", "}">>,
     <<"[", "1", ",", "2", ",", "]">>,
     <<"{", "x", ":", "1", "}">>,
     <<" ", "[", "1", " ", ",", " ", "2", "]", "\n">>,
     <<NBSP, "[", "1", "]">>,
     <<"\t", " ", "\n">>,
     <<"\"", "a", "\t", "b", "\"">>,
     <<"{", "\"", "x", "\"", ":", "1">>,
     <<"1", ",", "2", "]">>,
     <<"t", "r", "u">>}

ArgumentInputs ==
    ArgumentExamples \cup UNION {[1..n -> ArgumentChars] : n \in 0..MaxInput}

\* const parsedArgs1 = this.parseArguments(args1)
ParseArgumentsCall ==
    /\ pc = "parseArguments"
    /\ LET r == parseArguments(input)
       IN IF r.threw
          THEN /\ caught' = r.message
               /\ pc' = "thrown"
               /\ UNCHANGED parsedArgs
          ELSE /\ parsedArgs' = [returned |-> TRUE, list |-> r.list]
               /\ pc' = "parsed"
               /\ UNCHANGED caught
    /\ UNCHANGED <<revision, runs, heap, root, functionPath, cur, i, broke, times,
                   memories, result, error, results, report, ncalls, failedAt,
                   lastOutcome, func, input, argv, pending, gf>>

InitArguments ==
    /\ input \in ArgumentInputs
    /\ parsedArgs = NoArgs
    /\ pc = "parseArguments"
    /\ revision = 1
    /\ heap = [m \in Packages |-> BenchModule]
    /\ root = [m \in Packages |-> Ref("o0")]
    /\ functionPath = [m \in Packages |-> K.run]
    /\ cur = 1
    /\ runs = NumberOf(1)
    /\ i = 0
    /\ broke = FALSE
    /\ times = <<>>
    /\ memories = <<>>
    /\ result = Undefined
    /\ error = Undefined
    /\ results = [m \in Packages |-> NoResult]
    /\ caught = NoError
    /\ report = NoReport
    /\ ncalls = [m \in Packages |-> 0]
    /\ failedAt = [m \in Packages |-> 0]
    /\ lastOutcome = NoOutcome
    /\ func = Undefined
    /\ argv = NoArgv
    /\ pending = {}
    /\ gf = GfIdle

NextArguments == ParseArgumentsCall

SpecArguments == InitArguments /\ [][NextArguments]_vars

----------------------------------------------------------------------------
(* getValue on its own: one call, on any module and any dotted path *)

MaxSegments == 3

\* the modules paths are resolved in
ResolveModules == {M.mutual, M.defaultFn, M.fnRoot, M.deep, M.empty, M.null, M.undefined}

\* the property names a path is made of; '' is what 'a..b' and '' split into
ResolveKeys == {<<>>, K.a, K.b, K.d, K.util, K.bad}

\* segments.join('.')
RECURSIVE Join(_)
Join(segments) ==
    IF Len(segments) = 1 THEN segments[1]
    ELSE segments[1] \o <<Dot>> \o Join(Tail(segments))

ResolvePaths ==
    {S_default, S_main}
    \cup {Join(segments) : segments \in UNION {[1..n -> ResolveKeys] : n \in 1..MaxSegments}}

\* what a throwing property access raises
AccessError == "Error: thrown while reading a property"

\* const func = this.getValue(pkg, functionPath)
GetValueCall ==
    /\ pc = "getValue"
    /\ LET v == getValue(heap[cur], root[cur], functionPath[cur])
       IN IF v.threw
          THEN /\ caught' = AccessError
               /\ pc' = "thrown"
               /\ UNCHANGED func
          ELSE /\ func' = v.val
               /\ pc' = "resolved"
               /\ UNCHANGED caught
    /\ UNCHANGED <<revision, runs, heap, root, functionPath, cur, i, broke, times,
                   memories, result, error, results, report, ncalls, failedAt,
                   lastOutcome, input, parsedArgs, argv, pending, gf>>

InitResolve ==
    /\ \E base \in ResolveModules :
         \E one \in {base} \cup {WithHostile(base, place) : place \in HostilePlaces(base)} :
            /\ heap = <<one.heap, base.heap>>
            /\ root = <<one.root, base.root>>
    /\ functionPath \in [Packages -> ResolvePaths]
    /\ functionPath[1] = functionPath[2]
    /\ revision \in {1, 2}
    /\ pc = "getValue"
    /\ cur = 1
    /\ runs = NumberOf(1)
    /\ i = 0
    /\ broke = FALSE
    /\ times = <<>>
    /\ memories = <<>>
    /\ result = Undefined
    /\ error = Undefined
    /\ results = [m \in Packages |-> NoResult]
    /\ caught = NoError
    /\ report = NoReport
    /\ ncalls = [m \in Packages |-> 0]
    /\ failedAt = [m \in Packages |-> 0]
    /\ lastOutcome = NoOutcome
    /\ func = Undefined
    /\ argv = NoArgv
    /\ pending = {}
    /\ input = <<>>
    /\ parsedArgs = NoArgs
    /\ gf = GfIdle

NextResolve == GetValueCall

SpecResolve == InitResolve /\ [][NextResolve]_vars

----------------------------------------------------------------------------
(* The command line: from minimist(process.argv.slice(2)) to the first        *)
(* benchmarkFunction call                                                      *)

LeastRuns == 1
MostRuns == 100

\* what minimist leaves in argv.runs and argv.r: nothing, true (the bare flag),
\* a number (a numeric word) or a string (any other word)
RunsOptions ==
    {Undefined, JBoolean(TRUE), JString(<<>>), JString(<<"a", "b", "c">>),
     JString(<<"5", "x">>)}
    \cup {JNumber(n, <<>>, <<>>) : n \in {0 - 1, 0, LeastRuns, 2, MostRuns, MostRuns + 1}}

\* ToBoolean of an option
OptionTruthy(v) ==
    CASE v.t = "number"  -> v.kv[1] # 0
      [] v.t = "string"  -> v.kv # <<>>
      [] v.t = "boolean" -> v.kv[1]
      [] OTHER           -> FALSE

\* the decimal digits of a natural number
RECURSIVE NatChars(_)
NatChars(n) ==
    LET digit == <<"0", "1", "2", "3", "4", "5", "6", "7", "8", "9">>[(n % 10) + 1]
    IN  IF n < 10 THEN <<digit>> ELSE Append(NatChars(n \div 10), digit)

\* ToString of an option
OptionChars(v) ==
    CASE v.t = "number"  -> (IF v.kv[1] < 0 THEN <<"-">> \o NatChars(0 - v.kv[1]) ELSE NatChars(v.kv[1]))
      [] v.t = "string"  -> v.kv
      [] v.t = "boolean" -> (IF v.kv[1] THEN <<"t", "r", "u", "e">> ELSE <<"f", "a", "l", "s", "e">>)
      [] OTHER           -> <<"u", "n", "d", "e", "f", "i", "n", "e", "d">>

\* Number.parseInt(v, 10): leading whitespace, a sign, then the digits that follow
parseInt(v) ==
    LET str == TrimStart(OptionChars(v))
        signed == str # <<>> /\ str[1] \in {"+", "-"}
        first == IF signed THEN 2 ELSE 1
        last == SkipDigits(str, first) - 1
    IN  IF last < first THEN NotANumber
        ELSE NumberOf((IF signed /\ str[1] = "-" THEN 0 - 1 ELSE 1)
                      * IntValue(SubSeq(str, first, last), 0))

\* argv.runs || argv.r || '1'
RunsOption ==
    IF OptionTruthy(argv.runs) THEN argv.runs
    ELSE IF OptionTruthy(argv.r) THEN argv.r
    ELSE JString(<<"1">>)

\* (mutant) the script goes on whatever the number is
OutOfRange_Unchecked(n) == FALSE

\* runs < 1 || runs > 100
OutOfRange(n) == ~n.nan /\ (n.n < LeastRuns \/ n.n > MostRuns)

\* the script: the interactive revision checks the number, the 'vs' revision
\* checks the words of the command line
Startup ==
    /\ pc = "startup"
    /\ LET n == parseInt(RunsOption)
       IN IF \/ revision = 1 /\ OutOfRange(n)
             \/ revision = 2 /\ argv.mode = "usage"
          THEN pc' = "exit" /\ UNCHANGED runs
          ELSE pc' = "benchmark" /\ runs' = n
    /\ UNCHANGED <<revision, heap, root, functionPath, cur, i, broke, times,
                   memories, result, error, results, caught, report, ncalls, failedAt,
                   lastOutcome, func, input, parsedArgs, argv, pending, gf>>

InitStartup ==
    /\ revision \in {1, 2}
    /\ argv \in [runs : RunsOptions, r : RunsOptions,
                 mode : {"interactive", "single", "vs", "usage"}]
    /\ revision = 1 => argv.mode = "interactive"
    /\ pc = "startup"
    /\ runs = NumberOf(1)
    /\ heap = [m \in Packages |-> BenchModule]
    /\ root = [m \in Packages |-> Ref("o0")]
    /\ functionPath = [m \in Packages |-> K.run]
    /\ cur = 1
    /\ i = 0
    /\ broke = FALSE
    /\ times = <<>>
    /\ memories = <<>>
    /\ result = Undefined
    /\ error = Undefined
    /\ results = [m \in Packages |-> NoResult]
    /\ caught = NoError
    /\ report = NoReport
    /\ ncalls = [m \in Packages |-> 0]
    /\ failedAt = [m \in Packages |-> 0]
    /\ lastOutcome = NoOutcome
    /\ func = Undefined
    /\ input = <<>>
    /\ parsedArgs = NoArgs
    /\ pending = {}
    /\ gf = GfIdle

NextStartup ==
    \/ Startup
    \/ BenchmarkEnter

SpecStartup == InitStartup /\ [][NextStartup]_vars

----------------------------------------------------------------------------
(* Properties of benchmarkFunction and displayResults (Spec) *)

\* the benchmarkFunction call for package m is the one in progress
InCall(m) == cur = m /\ pc = "loop"

\* the measurements collected for package m so far
TimesCollected(m)    == IF results[m].returned THEN results[m].time.n ELSE Len(times)
MemoriesCollected(m) == IF results[m].returned THEN results[m].memory.n ELSE Len(memories)
ErrorOf(m)           == IF results[m].returned THEN results[m].error ELSE error

\* C1: if the k-th invocation is the first one that throws or rejects, the callable
\* is invoked exactly k times, exactly k-1 time and memory measurements are
\* collected, the error is set, and no invocation follows the failing one.
C1_HaltsAtFirstFailure ==
    \A m \in Packages :
        failedAt[m] # 0 =>
            /\ InCall(m) \/ results[m].returned
            /\ ncalls[m] = failedAt[m]
            /\ TimesCollected(m) = failedAt[m] - 1
            /\ MemoriesCollected(m) = failedAt[m] - 1
            /\ ErrorOf(m) # Undefined

\* a series of 3 configured runs was cut short by its second invocation
C1_Witness ==
    \E m \in Packages :
        /\ runs = NumberOf(3) /\ failedAt[m] = 2 /\ results[m].returned
        /\ results[m].time.n = 1 /\ pc = "done"

\* benchmarkFunction has just returned for package m (its history is still there)
JustReturned(m) ==
    /\ results[m].returned
    /\ m = 1 => (cur = 2 /\ pc = "benchmark")

\* C2: a callable that succeeds on every invocation is invoked exactly N times,
\* N time and N memory measurements are collected, the error is unset and the
\* result is the value of the last invocation.
C2_AllRunsMeasured ==
    \A m \in Packages :
        (JustReturned(m) /\ failedAt[m] = 0) =>
            /\ ncalls[m] = runs.n
            /\ results[m].time.n = runs.n
            /\ results[m].memory.n = runs.n
            /\ results[m].error = Undefined
            /\ Succeeds(lastOutcome)
            /\ results[m].result = lastOutcome.value

\* three successful runs whose last one resolved a thenable to "HelloWorld"
C2_Witness ==
    /\ JustReturned(1) /\ failedAt[1] = 0 /\ runs = NumberOf(3) /\ ncalls[1] = 3
    /\ lastOutcome.kind = "resolve"
    /\ results[1].result = Str("HelloWorld")

\* package a's pipeline failed: its path did not resolve to a callable, or its
\* callable threw
PipelineFailed(a) == ~results[a].returned \/ failedAt[a] # 0

DisplayReached == report.shown \/ caught = DisplayTypeError

\* C3: whenever one package's pipeline fails (bad path or throwing callable),
\* benchmarkFunction is still executed for the other package (whose own path
\* is a callable) and displayResults is still reached with both outcomes.
C3_OtherPipelineCompletes ==
    \A a \in Packages :
        (pc = "done" /\ PipelineFailed(a) /\ functionPath[3 - a] = K.run) =>
            /\ results[3 - a].returned
            /\ DisplayReached

\* C4: displayResults (having printed the per-result lines) declares a winner
\* if and only if both series completed without any failed invocation.
C4_WinnerIffBothSucceeded ==
    (pc = "done" /\ report.shown) =>
        (report.winner # 0 <=> (failedAt[1] = 0 /\ failedAt[2] = 0))

RatioAtLeastOne(r) == r.kind = "Infinity" \/ (r.kind = "finite" /\ r.hundredths >= 100)

\* C5: a winner declared for two error-free outcomes whose average times differ
\* is the one with the strictly lower average time, the loser is the other one,
\* and the ratio loser.time / winner.time is at least 1.
C5_WinnerIsFaster ==
    (/\ report.winner # 0
     /\ failedAt[1] = 0 /\ failedAt[2] = 0
     /\ Less(results[1].time, results[2].time) \/ Less(results[2].time, results[1].time)) =>
        /\ {report.winner, report.loser} = {1, 2}
        /\ Less(results[report.winner].time, results[report.loser].time)
        /\ RatioAtLeastOne(report.ratio)

\* the second package wins with a finite ratio above 1
C5_Witness ==
    /\ report.winner = 2 /\ report.loser = 1
    /\ failedAt[1] = 0 /\ failedAt[2] = 0
    /\ report.ratio.kind = "finite" /\ report.ratio.hundredths > 100

\* structural (deep) equality of two JSON values: object members compare by key
DeepEqual(v, w) ==
    /\ v.t = w.t
    /\ v.s = w.s
    /\ {v.kv[k] : k \in DOMAIN v.kv} = {w.kv[k] : k \in DOMAIN w.kv}

\* C6: when both benchmarks succeed, the report (of the 'vs' revision, the one
\* that has the warning) flags a correctness-divergence warning if and only if
\* the two final results are deeply unequal as JSON values.
C6_WarnsIffDeepUnequal ==
    (/\ pc = "done" /\ report.shown /\ revision = 2
     /\ failedAt[1] = 0 /\ failedAt[2] = 0) =>
        (report.warned <=> ~DeepEqual(results[1].result, results[2].result))

C19_FailureHasMessage ==
    \A m \in Packages :
        (results[m].returned /\ failedAt[m] # 0) =>
            /\ results[m].error.t = "string" /\ results[m].error.s # ""
            /\ \A k \in DOMAIN SuccessfulResults : SuccessfulResults[k] # m

\* the two average times are numbers and are equal
Tie == /\ ~IsNaN(results[1].time) /\ ~IsNaN(results[2].time)
       /\ results[1].time.sum * results[2].time.n = results[2].time.sum * results[1].time.n

\* C20 (as claimed): the winner declared for two error-free outcomes whose
\* average times are exactly equal is the first package's, the loser the second's.
C20_TieFirstWins ==
    (report.winner # 0 /\ failedAt[1] = 0 /\ failedAt[2] = 0 /\ Tie) =>
        report.winner = 1 /\ report.loser = 2

\* C20 (amended): the winner declared for two error-free outcomes whose average
\* times are exactly equal is the second package's, the loser the first's.
C20_TieSecondWins ==
    (report.winner # 0 /\ failedAt[1] = 0 /\ failedAt[2] = 0 /\ Tie) =>
        report.winner = 2 /\ report.loser = 1

\* both series of three runs averaged 2 ms, and package 2 was declared the winner
C20_Witness ==
    /\ report.winner = 2 /\ report.loser = 1
    /\ failedAt[1] = 0 /\ failedAt[2] = 0
    /\ results[1].time = [sum |-> 6, n |-> 3]
    /\ results[2].time = [sum |-> 6, n |-> 3]
    /\ report.ratio = [kind |-> "finite", hundredths |-> 100]

\* C12: a path that resolves to nothing and a path that resolves to a value that
\* is no callable are reported as two distinguishable errors: the error raised
\* for a value that is not a function is never raised for a path at which
\* nothing was found.
C12_NotFoundIsDistinct ==
    caught = NotAFunctionError => func # Undefined

----------------------------------------------------------------------------
(* Properties of getFunctions (SpecExplore) *)

\* the paths getFunctions returned for package m
PathsOf(m) == {gf.out[m].paths[k] : k \in DOMAIN gf.out[m].paths}

\* package m is made of plain data properties: nothing throws when read
PlainData(m) ==
    \A id \in DOMAIN heap[m] : \A k \in DOMAIN heap[m][id].props : ~heap[m][id].props[k].throws

\* package m is an object o with o.self = o and o.f a function
SelfReferential(m) ==
    /\ root[m].t = "ref"
    /\ Get(heap[m], root[m], K.self) = [threw |-> FALSE, val |-> root[m]]
    /\ Typeof(heap[m], Get(heap[m], root[m], K.f).val) = "function"

ExpandedAtMostOnce == \A id \in DOMAIN gf.expanded : gf.expanded[id] <= 1

\* C7: getFunctions terminates on every module, cyclic ones included; each object
\* or function has its properties enumerated at most once per call; and for o
\* with o.self = o and o.f a function the result contains the path "f".
C7_ExploreTerminates ==
    /\ [](ExpandedAtMostOnce
          /\ \A m \in Packages :
                (gf.out[m].status = "returned" /\ SelfReferential(m) /\ PlainData(m))
                    => K.f \in PathsOf(m))
    /\ <>(gf.pc = "done")

\* getFunctions returned "f" for the self-referential object
C7_Witness ==
    /\ gf.pc = "done"
    /\ SelfReferential(1) /\ PlainData(1)
    /\ gf.out[1] = [status |-> "returned", paths |-> <<K.f>>]
    /\ gf.expanded["o0"] = 1

\* package 1 is package 2 with one hostile property added
HasHostile == heap[1] # heap[2]

\* C8: with a single throwing property anywhere in the module, getFunctions does
\* not throw and still returns every path it returns for the same module
\* without that property.
C8_HostilePropertySkipped ==
    (gf.pc = "done" /\ HasHostile) =>
        /\ gf.out[1].status = "returned"
        /\ gf.out[2].status = "returned"
        /\ PathsOf(2) \subseteq PathsOf(1)

C10_Reflective ==
    {<<"c", "o", "n", "s", "t", "r", "u", "c", "t", "o", "r">>,
     <<"p", "r", "o", "t", "o", "t", "y", "p", "e">>,
     <<"c", "a", "l", "l", "e", "r">>,
     <<"a", "r", "g", "u", "m", "e", "n", "t", "s">>,
     <<"n", "a", "m", "e">>,
     <<"l", "e", "n", "g", "t", "h">>}

C10_Segments(path) == {Split(path)[k] : k \in DOMAIN Split(path)}

C10_Clean(path) ==
    \A seg \in C10_Segments(path) :
        /\ seg \notin C10_Reflective
        /\ ~(seg # <<>> /\ Head(seg) = "_")

\* C10: (no property name of the modules contains a '.') no path returned by
\* getFunctions passes through a property whose name starts with '_' or is one
\* of constructor, prototype, caller, arguments, name, length.
C10_NoPrivatePaths ==
    \A m \in Packages : \A path \in PathsOf(m) : C10_Clean(path)

\* a module with _p, constructor, name, _q, prototype and __r properties was
\* explored and util.ok was found
C10_Witness ==
    /\ gf.pc = "done"
    /\ Get(heap[1], root[1], K.up).val = Ref("F1")
    /\ K.util \o <<".">> \o K.ok \in PathsOf(1)
    /\ gf.out[1].status = "returned"

\* the `default` export of package m, when pkg lists it among its keys
C24_Default(m) ==
    IF \E k \in DOMAIN ObjectKeys(heap[m][root[m].s]) : ObjectKeys(heap[m][root[m].s])[k] = S_default
    THEN Get(heap[m], root[m], S_default).val
    ELSE Undefined

C24_IsObject(m, v) == v.t = "ref" /\ heap[m][v.s].type = "object"

\* the number of function-valued keys of object v, `skip` left out
C24_FunctionCount(m, v, skip) ==
    Cardinality({k \in DOMAIN heap[m][v.s].props :
                    /\ heap[m][v.s].props[k].enum
                    /\ heap[m][v.s].props[k].key # skip
                    /\ heap[m][v.s].props[k].val.t = "ref"
                    /\ heap[m][heap[m][v.s].props[k].val.s].type = "function"})

\* the root the traversal is to start from
C24_Root(m) ==
    LET d == C24_Default(m)
    IN  IF /\ C24_IsObject(m, d)
           /\ \/ /\ ObjectKeys(heap[m][root[m].s]) = <<S_default>>
                 /\ Len(ObjectKeys(heap[m][d.s])) > 1
              \/ /\ C24_FunctionCount(m, d, <<>>) > 5
                 /\ C24_FunctionCount(m, d, <<>>) > C24_FunctionCount(m, root[m], S_default)
        THEN d
        ELSE root[m]

\* C24: a getFunctions call that traverses does so from exactly one root: from
\* pkg.default when `default` is pkg's only key and a non-null object with more
\* than one key, or when it is a non-null object with more than 5 function-valued
\* keys and more of them than pkg has at its top level; otherwise from pkg.  The
\* root is expanded once and the traversal is not started a second time.
C24_OneRoot ==
    gf.pc = "explore" =>
        /\ gf.mode \in {"defaultOnly", "defaultRicher", "normal"}
        /\ (gf.mode = "normal") = (C24_Root(gf.m) = root[gf.m])
        /\ gf.stack # <<>> =>
              /\ gf.stack[1].obj = C24_Root(gf.m)
              /\ gf.stack[1].depth = 0
              /\ gf.stack[1].path = <<>>
              /\ gf.expanded[C24_Root(gf.m).s] = (IF gf.stack[1].phase = "enter" THEN 0 ELSE 1)
        /\ gf.stack = <<>> =>
              gf.expanded[C24_Root(gf.m).s] = (IF KeysThrow(heap[gf.m][C24_Root(gf.m).s]) THEN 0 ELSE 1)

\* the traversal from pkg.default, chosen because it holds six functions and the
\* top level one, has come to its end
C24_Witness ==
    /\ gf.pc = "explore"
    /\ gf.mode = "defaultRicher"
    /\ gf.stack = <<>>
    /\ C24_Root(gf.m) # root[gf.m]
    /\ gf.expanded[C24_Root(gf.m).s] = 1

\* package m is the chain a.b.c.d.e of nested objects with f0, f3, f4, f5 along it
C25_Chain(m) == heap[m] = M.deep.heap /\ root[m] = M.deep.root

C25_f3 == Join(<<K.a, K.b, K.c, K.f3>>)
C25_f4 == Join(<<K.a, K.b, K.c, K.d, K.f4>>)
C25_f5 == Join(<<K.a, K.b, K.c, K.d, K.e, K.f5>>)

\* C25: with the default maximum depth 3 (no property name contains a '.') every
\* path getFunctions returns has at most 4 segments, the properties of an object
\* are enumerated only at depths 0..3, and a function behind an object of depth 4
\* or more is not reported (of the chain: f3 is, f4 and f5 are not).
C25_DepthBounded ==
    /\ \A m \in Packages : \A path \in PathsOf(m) : Len(Split(path)) <= 4
    /\ \A k \in DOMAIN gf.stack : gf.stack[k].phase = "loop" => gf.stack[k].depth \in 0..3
    /\ \A m \in Packages :
          (gf.out[m].status = "returned" /\ C25_Chain(m)) =>
              /\ C25_f3 \in PathsOf(m)
              /\ C25_f4 \notin PathsOf(m)
              /\ C25_f5 \notin PathsOf(m)

\* the chain was explored: f0 and f3 are what is reported
C25_Witness ==
    /\ gf.pc = "done"
    /\ C25_Chain(1)
    /\ gf.out[1] = [status |-> "returned", paths |-> <<C25_f3, K.f0>>]

\* C26: every path in the list getFunctions returns is a non-empty string, also
\* for a module with a function-valued property whose name is the empty string.
C26_PathsNonEmpty ==
    \A m \in Packages : \A path \in PathsOf(m) : path # <<>>

\* the property names of package m are non-empty
C27_NamesNonEmpty(m) ==
    \A id \in DOMAIN heap[m] : \A k \in DOMAIN heap[m][id].props : heap[m][id].props[k].key # <<>>

\* getValue(pkg, path) is a function
C27_Resolves(m, path) ==
    /\ ~getValue(heap[m], root[m], path).threw
    /\ Typeof(heap[m], getValue(heap[m], root[m], path).val) = "function"

\* C27: for a module of plain data properties (non-empty names without '.') every
\* path getFunctions returned resolves to a function with getValue, so that
\* benchmarkFunction does not fail with '<path> is not a function' on it, the
\* default-rooted branches of getFunctions included.
C27_RoundTrip ==
    /\ \A m \in Packages :
          (gf.out[m].status = "returned" /\ PlainData(m) /\ C27_NamesNonEmpty(m)) =>
              \A path \in PathsOf(m) : C27_Resolves(m, path)
    /\ (pc = "finally" /\ PlainData(cur) /\ C27_NamesNonEmpty(cur)
            /\ functionPath[cur] \in PathsOf(cur)) => caught # NotAFunctionError

\* the values of the properties of v that explore lists; at the top of a package
\* explored as it is, `default` is left out (the result is filtered for it)
C28_Values(m, v, top) ==
    IF ~IsObjectLike(heap[m], v) THEN {}
    ELSE {Get(heap[m], v, Keys(heap[m], heap[m][v.s])[k]).val :
            k \in {j \in DOMAIN Keys(heap[m], heap[m][v.s]) :
                     ~(top /\ v = root[m] /\ Keys(heap[m], heap[m][v.s])[j] = S_default)}}

\* what is reachable from v by a chain of 1..n such properties
RECURSIVE C28_Within(_, _, _, _)
C28_Within(m, v, n, top) ==
    IF n = 0 THEN {}
    ELSE UNION {{w} \cup C28_Within(m, w, n - 1, FALSE) : w \in C28_Values(m, v, top)}

\* what a returned path stands for, read from the root of the traversal
C28_Resolve(m, path) ==
    IF path = S_main THEN C24_Root(m)
    ELSE Walk(heap[m], C24_Root(m), Split(path)).val

\* C28: for a module of plain data properties, every function that is reachable
\* from the root of the traversal by a chain of at most 4 listed property names
\* is what at least one returned path resolves to, shared objects included.
C28_Complete ==
    \A m \in Packages :
        (gf.out[m].status = "returned" /\ PlainData(m)) =>
            \A w \in C28_Within(m, C24_Root(m), 4, TRUE) :
                Typeof(heap[m], w) = "function" =>
                    \E path \in PathsOf(m) : C28_Resolve(m, path) = w

----------------------------------------------------------------------------
(* Properties of getValue (SpecResolve) *)

\* the value reached by walking the segments from v: undefined as soon as a
\* segment is missing (the property is absent, or there is nothing to read it from)
RECURSIVE C11_Reached(_, _, _)
C11_Reached(h, v, segments) ==
    IF segments = <<>> THEN v
    ELSE IF v.t # "ref" \/ OwnProp(h[v.s], Head(segments)) = <<>> THEN Undefined
    ELSE C11_Reached(h, OwnProp(h[v.s], Head(segments))[1].val, Tail(segments))

\* C11: for any root and any dotted path other than "default" and "main",
\* getValue does not throw; it returns undefined if a segment along the path is
\* missing and the value reached by walking the segments otherwise.
C11_GetValueNeverThrows ==
    (functionPath[cur] \notin {S_default, S_main} /\ pc # "getValue") =>
        /\ pc = "resolved"
        /\ func = C11_Reached(heap[cur], root[cur], Split(functionPath[cur]))

----------------------------------------------------------------------------
(* Properties of parseArguments (SpecArguments) *)

\* parseArguments has been called and is over
ParseOver == pc \in {"parsed", "thrown"}

\* the input is a JSON text
ValidJSON == JSONparse(input).ok

\* the trimmed input opens with the character open and closes with the character close
Delimited(open, close) ==
    LET trimmed == Trim(input)
    IN  trimmed # <<>> /\ trimmed[1] = open /\ trimmed[Len(trimmed)] = close

Unclosed ==
    LET trimmed == Trim(input)
    IN  trimmed # <<>> /\ trimmed[1] = "[" /\ trimmed[Len(trimmed)] # "]"

\* C14 (as claimed): malformed bracket-opened input that lacks its closing
\* bracket, such as '[1,2,', makes parseArguments fail instead of returning a list.
C14_UnclosedBracketFails ==
    (ParseOver /\ ~ValidJSON /\ Unclosed) => pc = "thrown"

\* C14 (amended): malformed bracket-opened input that lacks its closing bracket,
\* such as '[1,2,', does not make parseArguments fail: it returns the one-element
\* list that holds the trimmed input as a string.
C14_UnclosedBracketIsString ==
    (ParseOver /\ ~ValidJSON /\ Unclosed) =>
        /\ pc = "parsed"
        /\ parsedArgs = [returned |-> TRUE, list |-> <<JString(Trim(input))>>]

\* '[1,2,' came back as the string '[1,2,'
C14_Witness ==
    /\ input = <<"[", "1", ",", "2", ",">>
    /\ pc = "parsed"
    /\ parsedArgs.list = <<JString(<<"[", "1", ",", "2", ",">>)>>

\* C15: for an input that is valid JSON, parseArguments returns the parsed value
\* itself when it is an array and a one-element list holding the parsed value
\* when it is of any other JSON type.
C15_ValidJSONIsArgumentList ==
    (ParseOver /\ ValidJSON) =>
        /\ pc = "parsed"
        /\ parsedArgs.returned
        /\ LET parsed == JSONparse(input).val
           IN IF parsed.t = "array"
              THEN /\ Len(parsedArgs.list) = Len(parsed.kv)
                   /\ \A k \in DOMAIN parsed.kv : parsedArgs.list[k] = parsed.kv[k]
              ELSE parsedArgs.list = <<parsed>>

\* '[[1,2,3]]' gave one argument, the array [1, 2, 3]
C15_Witness ==
    /\ input = <<"[", "[", "1", ",", "2", ",", "3", "]", "]">>
    /\ pc = "parsed"
    /\ parsedArgs.list = <<JArray(<<JNumber(1, <<>>, <<>>), JNumber(2, <<>>, <<>>),
                                    JNumber(3, <<>>, <<>>)>>)>>

\* C16: for a non-blank input that is not valid JSON and whose trimmed form is
\* wrapped neither in [ ] nor in { }, parseArguments does not throw and returns
\* the one-element list that holds the trimmed input as a string.
C16_PlainTextIsOneString ==
    (/\ ParseOver /\ Trim(input) # <<>> /\ ~ValidJSON
     /\ ~Delimited("[", "]") /\ ~Delimited("{", "}")) =>
        /\ pc = "parsed"
        /\ parsedArgs = [returned |-> TRUE, list |-> <<JString(Trim(input))>>]

\* ' 1,' came back as the string '1,'
C16_Witness ==
    /\ input = <<" ", "1", ",">>
    /\ pc = "parsed"
    /\ parsedArgs.list = <<JString(<<"1", ",">>)>>

\* the characters that count as whitespace
C17_Whitespace == {" ", "\t", "\n", "\r", NBSP}

\* C17: for the empty string and for an input made of whitespace only,
\* parseArguments returns the empty list and does not raise.
C17_BlankGivesNoArguments ==
    (ParseOver /\ \A k \in DOMAIN input : input[k] \in C17_Whitespace) =>
        /\ pc = "parsed"
        /\ parsedArgs = [returned |-> TRUE, list |-> <<>>]

\* a tab, a space and a line feed gave no arguments
C17_Witness ==
    /\ input = <<"\t", " ", "\n">>
    /\ pc = "parsed"
    /\ parsedArgs.list = <<>>

----------------------------------------------------------------------------
(* Properties of the command line (SpecStartup) *)

\* the run count given on the command line: --runs, or -r when there is no --runs
C21_Given == IF argv.runs.t # "undefined" THEN argv.runs ELSE argv.r

\* C21: a run count outside the integers 1..100 is rejected by the script, and
\* benchmarkFunction is entered only with an integer run count in 1..100, in
\* both revisions.
C21_RunCountValidated ==
    /\ pc \notin {"startup", "exit"} => (~runs.nan /\ runs.n \in 1..100)
    /\ (C21_Given.t = "number" /\ C21_Given.kv[1] \notin 1..100) => pc \in {"startup", "exit"}

\* C23: when the first invocation of a series fails, so that no measurement is
\* collected, the outcome's average time and average memory are NaN, and a ratio
\* that displayResults computes from such an outcome is NaN too, never a number.
C23_NoMeasurementIsNaN ==
    \A m \in Packages :
        (results[m].returned /\ failedAt[m] = 1) =>
            /\ IsNaN(results[m].time)
            /\ IsNaN(results[m].memory)
            /\ report.winner # 0 => report.ratio.kind = "NaN"

\* both outcomes were compared although the first package failed at once (its
\* error message is empty), and the second package was measured
C23_Witness ==
    /\ failedAt[1] = 1
    /\ results[1].returned
    /\ report.winner # 0
    /\ ~IsNaN(results[2].time)

----------------------------------------------------------------------------
(* Properties of the schedule of invocations (SpecSchedule) *)

\* C22: invocations are never interleaved: at most one invocation is unsettled,
\* and only while benchmarkFunction is suspended on it; invocation i+1 starts only
\* when the i earlier ones are settled and measured; and the second package's
\* callable is invoked only after the first package's call has returned.
C22_NeverInterleaved ==
    /\ Cardinality(pending) <= 1
    /\ pending # {} => (pc = "await" /\ pending = {<<cur, ncalls[cur]>>})
    /\ pc \in {"await", "measure"} => (ncalls[cur] = i + 1 /\ Len(times) = i)
    /\ (pc = "loop" /\ ~broke) => (ncalls[cur] = i /\ Len(times) = i)
    /\ ncalls[2] > 0 => (results[1].returned /\ cur = 2)

C22_Witness ==
    /\ cur = 2
    /\ pc = "await"
    /\ ncalls[2] = 2
    /\ ncalls[1] >= 2

====
